---- MODULE Spec2Model ----
(***************************************************************************)
(* django-delete-all: the safety policy (safety.py), the audit log, the    *)
(* management command (management/commands/delete_all.py) and the admin    *)
(* action (admin.py), as a state machine.                                  *)
(*                                                                         *)
(* Three specifications share the variables:                                 *)
(*   SpecPolicy  the policy constructed from any configuration, and calls  *)
(*               of check_deletion_safety / requires_confirmation;         *)
(*   SpecLoad    the policy object over time: construction, changes of the *)
(*               process environment, explicit reload, and API calls;      *)
(*   Spec        one process serving invocations of a front-end: a         *)
(*               management-command run, or a web process answering admin  *)
(*               requests, over a host database other writers also fill.   *)
(***************************************************************************)
EXTENDS Integers, Sequences, FiniteSets, TLC

VARIABLES
    settings,   \* django.conf.settings as the process sees it
    environ,    \* os.environ: DJANGO_ENV, DJANGO_DELETE_ALL_DISABLED
    safety,     \* the module-level SafetyConfig instance
    loadEnv,    \* history: os.environ as load_settings last read it
    call,       \* the last direct call of the policy API and its result
    proc,       \* which process this is: "library", "loader", "command", "web"
    db,         \* host ORM: number of rows per model
    inv,        \* the current (or last) front-end invocation
    auditLog    \* the logging sink of safety.py's logger

vars == <<settings, environ, safety, loadEnv, call, proc, db, inv, auditLog>>

----------------------------------------------------------------------------
(* Bounds *)

\* Largest number of rows a model holds.
MaxCount == 2

\* Largest number of entries the logging sink holds before the web process
\* stops taking requests.
MaxAudit == 3

----------------------------------------------------------------------------
(* Strings that the code lower-cases or searches are sequences of          *)
(* characters; all other strings are TLA+ strings.                         *)

LowerChar(c) ==
    CASE c = "P" -> "p"
      [] c = "R" -> "r"
      [] c = "O" -> "o"
      [] c = "D" -> "d"
      [] c = "T" -> "t"
      [] c = "U" -> "u"
      [] c = "E" -> "e"
      [] OTHER   -> c

\* str.lower()
Lower(s) == [i \in 1..Len(s) |-> LowerChar(s[i])]

\* sub in s
Contains(sub, s) ==
    \E i \in 0..(Len(s) - Len(sub)) : SubSeq(s, i + 1, i + Len(sub)) = sub

Empty      == <<>>
Prod       == <<"p", "r", "o", "d">>
Production == <<"p", "r", "o", "d", "u", "c", "t", "i", "o", "n">>
UpperProd  == <<"P", "R", "O", "D">>
Staging    == <<"s", "t", "a", "g", "i", "n", "g">>
One        == <<"1">>
True       == <<"t", "r", "u", "e">>
TitleTrue  == <<"T", "r", "u", "e">>
Yes        == <<"y", "e", "s">>
UpperYes   == <<"Y", "E", "S">>
No         == <<"n", "o">>
DevDb      == <<"d", "b">>
ShopProdDb == <<"s", "h", "o", "p", "_", "P", "r", "o", "d">>

----------------------------------------------------------------------------
(* The host's model registry (django.apps.apps)                            *)

User  == [app_label |-> "auth", name |-> "User",
          verbose_name |-> "user", verbose_name_plural |-> "users"]
Order == [app_label |-> "shop", name |-> "Order",
          verbose_name |-> "order", verbose_name_plural |-> "orders"]

Models == {User, Order}

\* model._meta.label
Label(model) == model.app_label \o "." \o model.name

----------------------------------------------------------------------------
(* settings.DJANGO_DELETE_ALL: a dict; a key is absent ({}) or set ({v}).  *)
(* The key ENABLED is written ENABLED_ (ENABLED is a TLA+ keyword).        *)

Absent == {}

\* dict.get(key, default)
Get(entry, default) == IF entry = Absent THEN default ELSE CHOOSE v \in entry : TRUE

DefaultExcludedApps ==
    {"auth", "admin", "contenttypes", "sessions", "messages", "staticfiles"}

DefaultMaxObjects == 100

DefaultRequireConfirmationAbove == 10

\* SafetyConfig._apply_environment_overrides comparing DJANGO_ENV without
\* lower()
ApplyEnvironmentOverridesCaseSensitive(cfg, env) ==
    LET afterEnv ==
            IF env.DJANGO_ENV \in {Production, Prod}
            THEN IF ~cfg.production_enabled
                 THEN [cfg EXCEPT !.enabled = FALSE]
                 ELSE cfg
            ELSE cfg
    IN  IF Lower(env.DJANGO_DELETE_ALL_DISABLED) \in {True, One}
        THEN [afterEnv EXCEPT !.enabled = FALSE]
        ELSE afterEnv

\* SafetyConfig._apply_environment_overrides
ApplyEnvironmentOverrides(cfg, env) ==
    LET afterEnv ==
            IF Lower(env.DJANGO_ENV) \in {Production, Prod}
            THEN IF ~cfg.production_enabled
                 THEN [cfg EXCEPT !.enabled = FALSE]
                 ELSE cfg
            ELSE cfg
    IN  IF Lower(env.DJANGO_DELETE_ALL_DISABLED) \in {True, One}
        THEN [afterEnv EXCEPT !.enabled = FALSE]
        ELSE afterEnv

\* load_settings without its call of _apply_environment_overrides
LoadSettingsWithoutOverrides(s, env) ==
    LET d == s.DJANGO_DELETE_ALL
    IN  [enabled |-> Get(d.ENABLED_, TRUE),
         production_enabled |-> Get(d.PRODUCTION_ENABLED, FALSE),
         excluded_apps |-> Get(d.EXCLUDED_APPS, DefaultExcludedApps),
         excluded_models |-> Get(d.EXCLUDED_MODELS, {}),
         max_objects_without_confirmation |->
             Get(d.MAX_OBJECTS_WITHOUT_CONFIRMATION, DefaultMaxObjects),
         require_confirmation_above |->
             Get(d.REQUIRE_CONFIRMATION_ABOVE, DefaultRequireConfirmationAbove),
         audit_deletions |-> Get(d.AUDIT_DELETIONS, TRUE),
         backup_before_delete |-> Get(d.BACKUP_BEFORE_DELETE, FALSE)]

\* SafetyConfig.load_settings
LoadSettings(s, env) ==
    LET d == s.DJANGO_DELETE_ALL
        cfg == [enabled |-> Get(d.ENABLED_, TRUE),
                production_enabled |-> Get(d.PRODUCTION_ENABLED, FALSE),
                excluded_apps |-> Get(d.EXCLUDED_APPS, DefaultExcludedApps),
                excluded_models |-> Get(d.EXCLUDED_MODELS, {}),
                max_objects_without_confirmation |->
                    Get(d.MAX_OBJECTS_WITHOUT_CONFIRMATION, DefaultMaxObjects),
                require_confirmation_above |->
                    Get(d.REQUIRE_CONFIRMATION_ABOVE, DefaultRequireConfirmationAbove),
                audit_deletions |-> Get(d.AUDIT_DELETIONS, TRUE),
                backup_before_delete |-> Get(d.BACKUP_BEFORE_DELETE, FALSE)]
    IN  ApplyEnvironmentOverrides(cfg, env)

\* SafetyConfig.is_enabled
IsEnabled(cfg) == cfg.enabled

\* SafetyConfig.can_delete_model with the two exclusion tests swapped
CanDeleteModelModelsFirst(cfg, model) ==
    LET app_label == model.app_label
        model_name == app_label \o "." \o model.name
    IN  IF ~IsEnabled(cfg)
        THEN <<FALSE, "django-delete-all is disabled">>
        ELSE IF model_name \in cfg.excluded_models
        THEN <<FALSE, "Model '" \o model_name \o "' is in excluded models list">>
        ELSE IF app_label \in cfg.excluded_apps
        THEN <<FALSE, "App '" \o app_label \o "' is in excluded apps list">>
        ELSE <<TRUE, "OK">>

\* SafetyConfig.can_delete_model: (can_delete, reason)
CanDeleteModel(cfg, model) ==
    LET app_label == model.app_label
        model_name == app_label \o "." \o model.name
    IN  IF ~IsEnabled(cfg)
        THEN <<FALSE, "django-delete-all is disabled">>
        ELSE IF app_label \in cfg.excluded_apps
        THEN <<FALSE, "App '" \o app_label \o "' is in excluded apps list">>
        ELSE IF model_name \in cfg.excluded_models
        THEN <<FALSE, "Model '" \o model_name \o "' is in excluded models list">>
        ELSE <<TRUE, "OK">>

\* SafetyConfig.requires_confirmation with an inclusive threshold
RequiresConfirmationInclusive(cfg, object_count) ==
    object_count >= cfg.require_confirmation_above

\* SafetyConfig.requires_confirmation
RequiresConfirmation(cfg, object_count) ==
    object_count > cfg.require_confirmation_above

\* SafetyConfig.allows_bulk_delete: (can_bulk_delete, reason)
AllowsBulkDelete(cfg, object_count) ==
    IF object_count > cfg.max_objects_without_confirmation
    THEN <<FALSE, "Too many objects (" \o ToString(object_count)
                  \o "). Maximum allowed: "
                  \o ToString(cfg.max_objects_without_confirmation)>>
    ELSE <<TRUE, "OK">>

\* check_deletion_safety without the bulk limit
CheckDeletionSafetyWithoutLimit(cfg, model, object_count) ==
    LET can == CanDeleteModel(cfg, model)
    IN  IF ~can[1]
        THEN [allowed |-> FALSE,
              error |-> "Deletion not allowed: " \o can[2]]
        ELSE [allowed |-> TRUE, error |-> ""]

\* check_deletion_safety that lets an empty model through
CheckDeletionSafetyAllowingEmpty(cfg, model, object_count) ==
    LET can == CanDeleteModel(cfg, model)
        bulk == AllowsBulkDelete(cfg, object_count)
    IN  IF object_count = 0
        THEN [allowed |-> TRUE, error |-> ""]
        ELSE IF ~can[1]
        THEN [allowed |-> FALSE,
              error |-> "Deletion not allowed: " \o can[2]]
        ELSE IF ~bulk[1]
        THEN [allowed |-> FALSE,
              error |-> "Bulk deletion not allowed: " \o bulk[2]]
        ELSE [allowed |-> TRUE, error |-> ""]

\* check_deletion_safety: returns True (allowed) or raises
\* SafetyError(error)
CheckDeletionSafety(cfg, model, object_count) ==
    LET can == CanDeleteModel(cfg, model)
        bulk == AllowsBulkDelete(cfg, object_count)
    IN  IF ~can[1]
        THEN [allowed |-> FALSE,
              error |-> "Deletion not allowed: " \o can[2]]
        ELSE IF ~bulk[1]
        THEN [allowed |-> FALSE,
              error |-> "Bulk deletion not allowed: " \o bulk[2]]
        ELSE [allowed |-> TRUE, error |-> ""]

----------------------------------------------------------------------------
(* Audit log (safety.py). An entry is the formatted log line.              *)

\* log_deletion_attempt without the test of audit_deletions
LogDeletionAttemptAlways(cfg, log, model, object_count, user) ==
    Append(log, "Deletion attempt: " \o Label(model) \o " ("
                \o ToString(object_count) \o " objects) by " \o user)

\* log_deletion_attempt
LogDeletionAttempt(cfg, log, model, object_count, user) ==
    IF ~cfg.audit_deletions
    THEN log
    ELSE Append(log, "Deletion attempt: " \o Label(model) \o " ("
                     \o ToString(object_count) \o " objects) by " \o user)

\* log_deletion_success
LogDeletionSuccess(cfg, log, model, deleted_count, user) ==
    IF ~cfg.audit_deletions
    THEN log
    ELSE Append(log, "Deletion completed: " \o Label(model) \o " ("
                     \o ToString(deleted_count) \o " objects deleted) by " \o user)

----------------------------------------------------------------------------
(* What an invocation does, in order: a sequence of events.                *)
(*   count   the record count was read            (label, n)               *)
(*   check   check_deletion_safety was called     (label, n, text = "OK"   *)
(*           or the SafetyError's message)                                 *)
(*   input   the command asked for confirmation   (label, n, the prompt)   *)
(*   render  the admin confirmation page          (label, n)               *)
(*   delete  the host bulk-delete was called      (label, n = deleted      *)
(*           count, text = "returned" or "raised")                         *)
(*   log     an entry was appended to the audit log (text)                 *)
(*   write   the command wrote to stdout          (text)                   *)
(*   message the admin action queued a user message (text)                 *)
(*   raise   the invocation ended by raising      (label = exception       *)
(*           class, text = its message)                                    *)

Ev(ev, label, n, text) == [ev |-> ev, label |-> label, n |-> n, text |-> text]

\* The events of kind ev in a trace
Events(trace, kind) == {i \in 1..Len(trace) : trace[i].ev = kind}

\* The log events an audit call added: the entries after the first
\* Len(before) ones
Logged(before, after) ==
    [i \in 1..(Len(after) - Len(before)) |->
        Ev("log", "", 0, after[Len(before) + i])]

----------------------------------------------------------------------------
(* The host ORM                                                            *)

AllModels == <<User, Order>>

\* apps.get_app_config(app_label) succeeds
AppInstalled(app_label) == \E i \in 1..Len(AllModels) : AllModels[i].app_label = app_label

\* app_config.get_models()
GetModels(app_label) == SelectSeq(AllModels, LAMBDA m : m.app_label = app_label)

\* get_model looking the name up in every app instead of the app given
GetModelInAnyApp(app_label, model_name) ==
    {m \in Models : m.name = model_name}

\* app_config.get_model(model_name): the models of that name (none: LookupError)
GetModel(app_label, model_name) ==
    {m \in Models : m.app_label = app_label /\ m.name = model_name}

\* The error the host bulk-delete raises when it fails
HostError == "database error"

----------------------------------------------------------------------------
(* Management command (management/commands/delete_all.py)                  *)

\* Command._is_safe_environment
IsSafeEnvironment(s, env) ==
    IF ~s.DEBUG
    THEN FALSE
    ELSE IF Lower(env.DJANGO_ENV) \in {Production, Prod}
    THEN FALSE
    ELSE IF \E indicator \in {Prod, Production} : Contains(indicator, Lower(s.DB_NAME))
    THEN FALSE
    ELSE TRUE

\* Command._list_models: one line per model, with its live count
ListModels(app_label, rows) ==
    LET models == GetModels(app_label)
    IN  <<Ev("write", "", 0, "Available models in \"" \o app_label \o "\":")>>
        \o [i \in 1..Len(models) |->
               Ev("write", Label(models[i]), rows[models[i]],
                  "  - " \o models[i].name \o " (" \o ToString(rows[models[i]])
                  \o " objects)")]

\* The result of a step of the command: where it stands, what it did, and
\* the database it leaves.
CmdResult(pc, model, object_count, trace, rows) ==
    [pc |-> pc, model |-> model, object_count |-> object_count,
     trace |-> trace, rows |-> rows]

NoModel == [app_label |-> "", name |-> "",
            verbose_name |-> "", verbose_name_plural |-> ""]

\* Command.handle, lines 105-132, without the final safety check
PerformDeletionUnchecked(cfg, model, object_count, rows, fails, verbosity, before) ==
    IF fails
    THEN CmdResult("done", model, object_count,
             before \o <<Ev("delete", Label(model), 0, "raised"),
                         Ev("raise", "CommandError", 0,
                            "Error during deletion: " \o HostError)>>,
             rows)
    ELSE CmdResult("done", model, object_count,
             before \o <<Ev("delete", Label(model), rows[model], "returned"),
                         Ev("write", "", rows[model],
                            "Successfully deleted " \o ToString(rows[model])
                            \o " " \o model.verbose_name_plural \o ".")>>,
             [rows EXCEPT ![model] = 0])

\* Command.handle, lines 105-132: the final safety check, the host
\* bulk-delete in a transaction, and the report. self.verbosity is read
\* after the report; handle never sets it, so verbosity is Absent unless the
\* host framework or a subclass provides it, and reading it then raises
\* AttributeError, which the except clause turns into a CommandError.
PerformDeletion(cfg, model, object_count, rows, fails, verbosity, before) ==
    LET check == CheckDeletionSafety(cfg, model, object_count)
        checked == before \o <<Ev("check", Label(model), object_count,
                                  IF check.allowed THEN "OK" ELSE check.error)>>
        deleted_count == rows[model]
        reported == checked \o
            <<Ev("delete", Label(model), deleted_count, "returned"),
              Ev("write", "", deleted_count,
                 "Successfully deleted " \o ToString(deleted_count)
                 \o " " \o model.verbose_name_plural \o ".")>>
    IN  IF ~check.allowed
        THEN CmdResult("done", model, object_count,
                 checked \o <<Ev("raise", "CommandError", 0,
                     "Deletion blocked for safety: " \o check.error
                     \o "\n\nTo adjust safety limits, modify DJANGO_DELETE_ALL settings in your Django configuration.")>>,
                 rows)
        ELSE IF fails
        THEN CmdResult("done", model, object_count,
                 checked \o <<Ev("delete", Label(model), 0, "raised"),
                              Ev("raise", "CommandError", 0,
                                 "Error during deletion: " \o HostError)>>,
                 rows)
        ELSE IF verbosity = Absent
        THEN CmdResult("done", model, object_count,
                 reported \o <<Ev("raise", "CommandError", 0,
                     "Error during deletion: 'Command' object has no attribute 'verbosity'")>>,
                 [rows EXCEPT ![model] = 0])
        ELSE IF Get(verbosity, 1) > 1 /\ deleted_count > 0
        THEN CmdResult("done", model, object_count,
                 reported \o <<Ev("write", Label(model), deleted_count,
                     "  - " \o Label(model) \o ": " \o ToString(deleted_count))>>,
                 [rows EXCEPT ![model] = 0])
        ELSE CmdResult("done", model, object_count, reported,
                 [rows EXCEPT ![model] = 0])

\* The confirmation prompt of Command.handle, line 97
Prompt(model, object_count) ==
    Ev("input", Label(model), object_count,
       "Are you sure you want to delete ALL " \o ToString(object_count) \o " "
       \o model.verbose_name_plural \o "? This cannot be undone! (yes/no): ")

\* Command.handle, lines 73-103, without the early return of a dry run
CountAndConfirmIgnoringDryRun(opts, cfg, model, rows, fails, verbosity) ==
    LET object_count == rows[model]
        counted == <<Ev("count", Label(model), object_count, "")>>
        found == counted \o
            <<Ev("write", "", object_count,
                 "Found " \o ToString(object_count) \o " "
                 \o model.verbose_name_plural \o " to delete.")>>
    IN  IF object_count = 0
        THEN CmdResult("done", model, object_count,
                 counted \o <<Ev("write", "", 0,
                     "No " \o model.verbose_name_plural \o " found to delete.")>>,
                 rows)
        ELSE IF ~opts.force
        THEN CmdResult("prompt", model, object_count,
                 found \o <<Prompt(model, object_count)>>, rows)
        ELSE PerformDeletion(cfg, model, object_count, rows, fails, verbosity, found)

\* Command.handle, lines 73-103: the record count, the report, the dry run
\* and the confirmation prompt, where the command blocks (pc = "prompt")
CountAndConfirm(opts, cfg, model, rows, fails, verbosity) ==
    LET object_count == rows[model]
        counted == <<Ev("count", Label(model), object_count, "")>>
        found == counted \o
            <<Ev("write", "", object_count,
                 "Found " \o ToString(object_count) \o " "
                 \o model.verbose_name_plural \o " to delete.")>>
    IN  IF object_count = 0
        THEN CmdResult("done", model, object_count,
                 counted \o <<Ev("write", "", 0,
                     "No " \o model.verbose_name_plural \o " found to delete.")>>,
                 rows)
        ELSE IF opts.dry_run
        THEN CmdResult("done", model, object_count,
                 found \o <<Ev("write", "", 0,
                     "DRY RUN: No objects were actually deleted.")>>,
                 rows)
        ELSE IF ~opts.force
        THEN CmdResult("prompt", model, object_count,
                 found \o <<Prompt(model, object_count)>>, rows)
        ELSE PerformDeletion(cfg, model, object_count, rows, fails, verbosity, found)

\* Command.handle from its start: the environment check, the lookup of the
\* app and the model, then lines 73-103 (and, with --force, the deletion)
Handle(opts, cfg, s, env, rows, fails, verbosity) ==
    IF ~IsSafeEnvironment(s, env) /\ ~opts.production_override
    THEN CmdResult("done", NoModel, 0,
             <<Ev("raise", "CommandError", 0,
                  "This command is disabled in production environments. Use --production-override if you really need to run this in production.")>>,
             rows)
    ELSE IF ~AppInstalled(opts.app_label)
    THEN CmdResult("done", NoModel, 0,
             <<Ev("raise", "CommandError", 0,
                  "App \"" \o opts.app_label \o "\" not found.")>>,
             rows)
    ELSE IF opts.model_name = ""
    THEN CmdResult("done", NoModel, 0, ListModels(opts.app_label, rows), rows)
    ELSE IF GetModel(opts.app_label, opts.model_name) = {}
    THEN CmdResult("done", NoModel, 0,
             <<Ev("raise", "CommandError", 0,
                  "Model \"" \o opts.model_name \o "\" not found in app \""
                  \o opts.app_label
                  \o "\". Run command without model name to see available models.")>>,
             rows)
    ELSE CountAndConfirm(opts, cfg,
             CHOOSE m \in GetModel(opts.app_label, opts.model_name) : TRUE,
             rows, fails, verbosity)

\* HandleAnswer with only the answer "no" taken as a refusal
HandleAnswerUnlessNo(confirm, cfg, model, object_count, rows, fails, verbosity, before) ==
    IF Lower(confirm) = No
    THEN CmdResult("done", model, object_count,
             before \o <<Ev("write", "", 0, "Operation cancelled.")>>, rows)
    ELSE PerformDeletion(cfg, model, object_count, rows, fails, verbosity, before)

\* Command.handle, lines 101-132: from the answer to the prompt to the end
HandleAnswer(confirm, cfg, model, object_count, rows, fails, verbosity, before) ==
    IF Lower(confirm) # Yes
    THEN CmdResult("done", model, object_count,
             before \o <<Ev("write", "", 0, "Operation cancelled.")>>, rows)
    ELSE PerformDeletion(cfg, model, object_count, rows, fails, verbosity, before)

----------------------------------------------------------------------------
(* Admin action (admin.py)                                                 *)

\* What one request leaves: the response, what it did, the database, the
\* audit log and the template context of the confirmation page.
AdminResult(response, object_count, trace, rows, log, context) ==
    [response |-> response, object_count |-> object_count, trace |-> trace,
     rows |-> rows, log |-> log, context |-> context]

NoContext == [object_count |-> 0, is_large_deletion |-> FALSE,
              max_without_confirmation |-> 0, requires_confirmation |-> FALSE]

\* The number the confirmation page compares the count with (admin.py:109)
LargeDeletion == 100

\* delete_all_action, lines 27-48, without the error message
SafetyBlockedSilently(model, object_count, error, cfg, rows, log, checked) ==
    AdminResult("redirect", object_count, checked, rows, log, NoContext)

\* delete_all_action, lines 27-48: the SafetyError is shown to the user as
\* an error message and the request ends with a redirect (return None)
SafetyBlocked(model, object_count, error, cfg, rows, log, checked) ==
    AdminResult("redirect", object_count,
        checked \o <<Ev("message", "error", object_count,
            "Deletion Blocked for Safety: " \o error
            \o " Maximum objects without confirmation: "
            \o ToString(cfg.max_objects_without_confirmation)
            \o " Objects found: " \o ToString(object_count))>>,
        rows, log, NoContext)

\* delete_all_action, lines 58-120: the audit attempt, then either the
\* deletion (the confirmation request) or the confirmation page
AfterSafetyCheck(model, object_count, post, user, cfg, rows, log, fails, checked) ==
    LET attempted == LogDeletionAttempt(cfg, log, model, object_count, user)
        logged == checked \o Logged(log, attempted)
        deleted_count == rows[model]
        succeeded == LogDeletionSuccess(cfg, attempted, model, deleted_count, user)
    IN  IF post = "yes"
        THEN IF object_count > 0
             THEN IF fails
                  THEN AdminResult("redirect", object_count,
                           logged \o <<Ev("delete", Label(model), 0, "raised"),
                                       Ev("message", "ERROR", 0,
                                          "Error during deletion: " \o HostError)>>,
                           rows, attempted, NoContext)
                  ELSE AdminResult("redirect", object_count,
                           logged
                           \o <<Ev("delete", Label(model), deleted_count, "returned")>>
                           \o Logged(attempted, succeeded)
                           \o <<Ev("message", "info", deleted_count,
                                   "Successfully deleted " \o ToString(deleted_count)
                                   \o " " \o (IF deleted_count # 1
                                              THEN model.verbose_name_plural
                                              ELSE model.verbose_name) \o ".")>>,
                           [rows EXCEPT ![model] = 0], succeeded, NoContext)
             ELSE AdminResult("redirect", object_count,
                      logged \o <<Ev("message", "info", 0,
                          "No " \o model.verbose_name_plural \o " to delete.")>>,
                      rows, attempted, NoContext)
        ELSE AdminResult("page", object_count,
                 logged \o <<Ev("render", Label(model), object_count,
                                "admin/delete_all_confirmation.html")>>,
                 rows, attempted,
                 [object_count |-> object_count,
                  is_large_deletion |-> object_count > LargeDeletion,
                  max_without_confirmation |-> cfg.max_objects_without_confirmation,
                  requires_confirmation |-> RequiresConfirmation(cfg, object_count)])

\* delete_all_action whose safety branch lacks its return, so a blocked
\* request goes on like an allowed one
DeleteAllActionFallingThrough(model, perm, post, user, cfg, rows, log, fails) ==
    LET object_count == rows[model]
        check == CheckDeletionSafety(cfg, model, object_count)
        checked == <<Ev("count", Label(model), object_count, ""),
                     Ev("check", Label(model), object_count,
                        IF check.allowed THEN "OK" ELSE check.error)>>
    IN  IF ~perm
        THEN AdminResult("PermissionDenied", 0,
                 <<Ev("raise", "PermissionDenied", 0, "")>>, rows, log, NoContext)
        ELSE AfterSafetyCheck(model, object_count, post, user, cfg, rows, log,
                 fails,
                 IF check.allowed
                 THEN checked
                 ELSE SafetyBlocked(model, object_count, check.error, cfg, rows,
                                    log, checked).trace)

\* delete_all_action without its permission check
DeleteAllActionWithoutPermission(model, perm, post, user, cfg, rows, log, fails) ==
    LET object_count == rows[model]
        check == CheckDeletionSafety(cfg, model, object_count)
        checked == <<Ev("count", Label(model), object_count, ""),
                     Ev("check", Label(model), object_count,
                        IF check.allowed THEN "OK" ELSE check.error)>>
    IN  IF ~check.allowed
        THEN SafetyBlocked(model, object_count, check.error, cfg, rows, log, checked)
        ELSE AfterSafetyCheck(model, object_count, post, user, cfg, rows, log,
                              fails, checked)

\* delete_all_action: one HTTP request, from the permission check to the
\* response
DeleteAllAction(model, perm, post, user, cfg, rows, log, fails) ==
    LET object_count == rows[model]
        check == CheckDeletionSafety(cfg, model, object_count)
        checked == <<Ev("count", Label(model), object_count, ""),
                     Ev("check", Label(model), object_count,
                        IF check.allowed THEN "OK" ELSE check.error)>>
    IN  IF ~perm
        THEN AdminResult("PermissionDenied", 0,
                 <<Ev("raise", "PermissionDenied", 0, "")>>, rows, log, NoContext)
        ELSE IF ~check.allowed
        THEN SafetyBlocked(model, object_count, check.error, cfg, rows, log, checked)
        ELSE AfterSafetyCheck(model, object_count, post, user, cfg, rows, log,
                              fails, checked)

----------------------------------------------------------------------------
(* Inputs                                                                  *)

\* Values of DJANGO_ENV and of DJANGO_DELETE_ALL_DISABLED (Empty: unset)
EnvNames == {Empty, UpperProd, Staging}
DisabledFlags == {Empty, TitleTrue}

Environs == [DJANGO_ENV : EnvNames, DJANGO_DELETE_ALL_DISABLED : DisabledFlags]

\* Thresholds a deployment configures besides the defaults
SmallLimit == MaxCount - 1

\* settings.DJANGO_DELETE_ALL in the policy's own specification
PolicyDicts ==
    [ENABLED_ : {Absent, {TRUE}, {FALSE}},
     PRODUCTION_ENABLED : {Absent, {TRUE}},
     EXCLUDED_APPS : {Absent, {{"shop"}}},
     EXCLUDED_MODELS : {Absent, {{"shop.Order"}}},
     MAX_OBJECTS_WITHOUT_CONFIRMATION : {Absent, {SmallLimit}},
     REQUIRE_CONFIRMATION_ABOVE : {Absent, {0}},
     AUDIT_DELETIONS : {Absent},
     BACKUP_BEFORE_DELETE : {Absent}]

\* settings.DJANGO_DELETE_ALL where the policy is loaded and reloaded
LoadDicts ==
    [ENABLED_ : {Absent, {TRUE}, {FALSE}},
     PRODUCTION_ENABLED : {Absent, {TRUE}},
     EXCLUDED_APPS : {Absent},
     EXCLUDED_MODELS : {Absent},
     MAX_OBJECTS_WITHOUT_CONFIRMATION : {{SmallLimit}},
     REQUIRE_CONFIRMATION_ABOVE : {Absent},
     AUDIT_DELETIONS : {Absent, {FALSE}},
     BACKUP_BEFORE_DELETE : {Absent}]

\* settings.DJANGO_DELETE_ALL of a deployment that serves invocations
DeploymentDicts ==
    [ENABLED_ : {Absent, {FALSE}},
     PRODUCTION_ENABLED : {Absent, {TRUE}},
     EXCLUDED_APPS : {Absent},
     EXCLUDED_MODELS : {Absent},
     MAX_OBJECTS_WITHOUT_CONFIRMATION : {{SmallLimit}},
     REQUIRE_CONFIRMATION_ABOVE : {{0}},
     AUDIT_DELETIONS : {Absent, {FALSE}},
     BACKUP_BEFORE_DELETE : {Absent}]

\* The settings of a process. The management command reads DEBUG and the
\* database name and never reads AUDIT_DELETIONS; the admin action reads
\* AUDIT_DELETIONS and neither DEBUG nor the database name; so each kind of
\* process varies the settings its code reads.
DeploymentSettings(kind) ==
    IF kind = "command"
    THEN [DEBUG : BOOLEAN, DB_NAME : {DevDb, ShopProdDb},
          DJANGO_DELETE_ALL : {d \in DeploymentDicts : d.AUDIT_DELETIONS = Absent}]
    ELSE [DEBUG : {FALSE}, DB_NAME : {DevDb},
          DJANGO_DELETE_ALL : DeploymentDicts]

\* Record counts given to the policy API directly: small ones and the ones
\* around the default thresholds
CallCounts ==
    (0..MaxCount) \cup {DefaultRequireConfirmationAbove,
                        DefaultRequireConfirmationAbove + 1,
                        DefaultMaxObjects, DefaultMaxObjects + 1}

\* Command lines: delete_all <app_label> [<model_name>] [--force]
\* [--dry-run] [--production-override]
CommandLines ==
    [app_label : {"shop", "auth", "blog"}, model_name : {"", "Order", "User"},
     force : BOOLEAN, dry_run : BOOLEAN, production_override : BOOLEAN]

\* What the caller types at the prompt
Answers == {Yes, UpperYes, No, Empty}

\* self.verbosity: not an attribute (Absent) or a level
Verbosities == {Absent, {2}}

\* request.POST.get('post'): "" when the request carries none
Posts == {"", "yes", "YES"}

Users == {"alice"}

----------------------------------------------------------------------------
(* State                                                                   *)

NoCall == [fn |-> "", model |-> NoModel, n |-> 0,
           allowed |-> FALSE, error |-> "", requires |-> FALSE]

Idle == [fe |-> "", pc |-> "idle", model |-> NoModel, object_count |-> 0,
         trace |-> <<>>, response |-> "", context |-> NoContext]

\* A deployment starts a management command or a web process; the policy is
\* constructed when safety.py is imported.
Init ==
    /\ proc \in {"command", "web"}
    /\ settings \in DeploymentSettings(proc)
    /\ environ \in [DJANGO_ENV : {Empty, UpperProd},
                    DJANGO_DELETE_ALL_DISABLED : {Empty}]
    /\ safety = LoadSettings(settings, environ)
    /\ loadEnv = environ
    /\ call = NoCall
    /\ db \in [Models -> 0..MaxCount]
    /\ inv = [Idle EXCEPT !.fe = proc]
    /\ auditLog = <<>>

\* Command.handle from its start to the prompt or to its end
CmdStart ==
    /\ proc = "command"
    /\ inv.pc = "idle"
    /\ \E opts \in CommandLines, fails \in BOOLEAN, verbosity \in Verbosities :
        LET r == Handle(opts, safety, settings, environ, db, fails, verbosity)
        IN  /\ inv' = [fe |-> "command", pc |-> r.pc, opts |-> opts,
                       model |-> r.model, object_count |-> r.object_count,
                       trace |-> r.trace, response |-> "", context |-> NoContext,
                       confirm |-> Empty]
            /\ db' = r.rows
    /\ UNCHANGED <<settings, environ, safety, loadEnv, call, proc, auditLog>>

\* Command.handle from the caller's answer to its end; confirm is what
\* input() returned
CmdAnswer ==
    /\ proc = "command"
    /\ inv.pc = "prompt"
    /\ \E confirm \in Answers, fails \in BOOLEAN, verbosity \in Verbosities :
        LET r == HandleAnswer(confirm, safety, inv.model, inv.object_count,
                              db, fails, verbosity, inv.trace)
        IN  /\ inv' = [inv EXCEPT !.pc = r.pc, !.trace = r.trace,
                                  !.confirm = confirm]
            /\ db' = r.rows
    /\ UNCHANGED <<settings, environ, safety, loadEnv, call, proc, auditLog>>

\* One request of the admin action; each request is a new invocation
AdminRequest ==
    /\ proc = "web"
    /\ Len(auditLog) + 2 <= MaxAudit
    /\ \E model \in Models, perm \in BOOLEAN, post \in Posts,
          user \in Users, fails \in BOOLEAN :
        LET r == DeleteAllAction(model, perm, post, user, safety, db, auditLog, fails)
        IN  /\ inv' = [fe |-> "admin", pc |-> "done",
                       opts |-> [perm |-> perm, post |-> post, user |-> user],
                       model |-> model, object_count |-> r.object_count,
                       trace |-> r.trace, response |-> r.response,
                       context |-> r.context]
            /\ db' = r.rows
            /\ auditLog' = r.log
    /\ UNCHANGED <<settings, environ, safety, loadEnv, call, proc>>

\* Another writer of the host database adds a row
HostInsert ==
    /\ proc \in {"command", "web"}
    /\ \E model \in Models :
        /\ db[model] < MaxCount
        /\ db' = [db EXCEPT ![model] = @ + 1]
    /\ UNCHANGED <<settings, environ, safety, loadEnv, call, proc, inv, auditLog>>

----------------------------------------------------------------------------
(* The policy API called directly (SpecPolicy, SpecLoad)                   *)

\* check_deletion_safety(model, object_count) that rebuilds the policy
\* from the settings and environment on every call
CallCheckDeletionSafetyReloading ==
    /\ proc \in {"library", "loader"}
    /\ \E model \in Models,
          n \in (IF proc = "library" THEN CallCounts ELSE {0, MaxCount}) :
        LET r == CheckDeletionSafety(LoadSettings(settings, environ), model, n)
        IN  call' = [fn |-> "check_deletion_safety", model |-> model, n |-> n,
                     allowed |-> r.allowed, error |-> r.error, requires |-> FALSE]
    /\ safety' = LoadSettings(settings, environ)
    /\ UNCHANGED <<settings, environ, loadEnv, proc, db, inv, auditLog>>

\* check_deletion_safety(model, object_count)
CallCheckDeletionSafety ==
    /\ proc \in {"library", "loader"}
    /\ \E model \in Models,
          n \in (IF proc = "library" THEN CallCounts ELSE {0, MaxCount}) :
        LET r == CheckDeletionSafety(safety, model, n)
        IN  call' = [fn |-> "check_deletion_safety", model |-> model, n |-> n,
                     allowed |-> r.allowed, error |-> r.error, requires |-> FALSE]
    /\ UNCHANGED <<settings, environ, safety, loadEnv, proc, db, inv, auditLog>>

\* safety.requires_confirmation(object_count)
CallRequiresConfirmation ==
    /\ proc \in {"library", "loader"}
    /\ \E n \in (IF proc = "library" THEN CallCounts ELSE {0, MaxCount}) :
        call' = [fn |-> "requires_confirmation", model |-> NoModel, n |-> n,
                 allowed |-> FALSE, error |-> "",
                 requires |-> RequiresConfirmation(safety, n)]
    /\ UNCHANGED <<settings, environ, safety, loadEnv, proc, db, inv, auditLog>>

\* log_deletion_attempt(model, object_count, user)
CallLogDeletionAttempt ==
    /\ proc = "loader"
    /\ Len(auditLog) < MaxAudit
    /\ \E user \in Users :
        auditLog' = LogDeletionAttempt(safety, auditLog, Order, MaxCount, user)
    /\ call' = [NoCall EXCEPT !.fn = "log_deletion_attempt", !.model = Order,
                              !.n = MaxCount]
    /\ UNCHANGED <<settings, environ, safety, loadEnv, proc, db, inv>>

\* log_deletion_success(model, deleted_count, user)
CallLogDeletionSuccess ==
    /\ proc = "loader"
    /\ Len(auditLog) < MaxAudit
    /\ \E user \in Users :
        auditLog' = LogDeletionSuccess(safety, auditLog, Order, MaxCount, user)
    /\ call' = [NoCall EXCEPT !.fn = "log_deletion_success", !.model = Order,
                              !.n = MaxCount]
    /\ UNCHANGED <<settings, environ, safety, loadEnv, proc, db, inv>>

\* The process environment changes (os.environ is writable)
SetEnv ==
    /\ proc = "loader"
    /\ \E e \in [DJANGO_ENV : {Empty, UpperProd},
                 DJANGO_DELETE_ALL_DISABLED : DisabledFlags] :
        /\ e # environ
        /\ environ' = e
    /\ UNCHANGED <<settings, safety, loadEnv, call, proc, db, inv, auditLog>>

\* safety.load_settings() called again: the explicit reload
Reload ==
    /\ proc = "loader"
    /\ safety' = LoadSettings(settings, environ)
    /\ loadEnv' = environ
    /\ UNCHANGED <<settings, environ, call, proc, db, inv, auditLog>>

\* The policy is constructed from any configuration and environment, then
\* called.
InitPolicy ==
    /\ proc = "library"
    /\ settings \in [DEBUG : {TRUE}, DB_NAME : {DevDb},
                     DJANGO_DELETE_ALL : PolicyDicts]
    /\ environ \in Environs
    /\ safety = LoadSettings(settings, environ)
    /\ loadEnv = environ
    /\ call = NoCall
    /\ db = [m \in Models |-> 0]
    /\ inv = Idle
    /\ auditLog = <<>>

NextPolicy == CallCheckDeletionSafety \/ CallRequiresConfirmation

SpecPolicy == InitPolicy /\ [][NextPolicy]_vars

\* The policy is constructed, then the environment changes, the policy is
\* reloaded and the API is called, in any order.
InitLoad ==
    /\ proc = "loader"
    /\ settings \in [DEBUG : {TRUE}, DB_NAME : {DevDb, ShopProdDb},
                     DJANGO_DELETE_ALL : LoadDicts]
    /\ environ \in [DJANGO_ENV : {Empty, UpperProd},
                    DJANGO_DELETE_ALL_DISABLED : DisabledFlags]
    /\ safety = LoadSettings(settings, environ)
    /\ loadEnv = environ
    /\ call = NoCall
    /\ db = [m \in Models |-> 0]
    /\ inv = Idle
    /\ auditLog = <<>>

NextLoad ==
    \/ SetEnv
    \/ Reload
    \/ CallCheckDeletionSafety
    \/ CallRequiresConfirmation
    \/ CallLogDeletionAttempt
    \/ CallLogDeletionSuccess

SpecLoad == InitLoad /\ [][NextLoad]_vars

Next == CmdStart \/ CmdAnswer \/ AdminRequest \/ HostInsert

Spec == Init /\ [][Next]_vars

----------------------------------------------------------------------------
(* Properties                                                              *)

Trace == inv.trace

\* The SafetyError messages of the four rules
DisabledError == "Deletion not allowed: django-delete-all is disabled"

AppExcludedError(model) ==
    "Deletion not allowed: App '" \o model.app_label
    \o "' is in excluded apps list"

ModelExcludedError(model) ==
    "Deletion not allowed: Model '" \o Label(model)
    \o "' is in excluded models list"

TooManyError(n, limit) ==
    "Bulk deletion not allowed: Too many objects (" \o ToString(n)
    \o "). Maximum allowed: " \o ToString(limit)

\* A command run that has started
CommandRun == inv.fe = "command" /\ inv.pc # "idle"

\* An admin request that was served
AdminRun == inv.fe = "admin" /\ inv.pc = "done"

\* C1: in the command and in the admin action, every call of the host
\* bulk-delete comes after a check_deletion_safety call of the same
\* invocation that returned (allowed) for the same model and for the record
\* count the invocation read.
C1_DeleteOnlyAfterAllowed ==
    \A i \in Events(Trace, "delete") :
        \E c \in Events(Trace, "count"), k \in Events(Trace, "check") :
            /\ c < k
            /\ k < i
            /\ Trace[k].text = "OK"
            /\ Trace[k].label = Trace[i].label
            /\ Trace[k].label = Trace[c].label
            /\ Trace[k].label = Label(inv.model)
            /\ Trace[k].n = Trace[c].n
            /\ Trace[c].n = inv.object_count

\* C1 witness: a command run deleted after the prompt, and the host
\* deleted more rows than the run had counted and checked.
C1_Witness ==
    /\ CommandRun
    /\ \E p \in Events(Trace, "input"), i \in Events(Trace, "delete") :
        /\ p < i
        /\ Trace[i].text = "returned"
        /\ Trace[i].n > inv.object_count

\* The run wrote the record count it read: "Found N ..." or, for N = 0,
\* "No ... found to delete."
ReportsCount ==
    \E c \in Events(Trace, "count"), w \in Events(Trace, "write") :
        /\ c < w
        /\ Trace[w].n = Trace[c].n
        /\ Trace[w].text =
              IF Trace[c].n = 0
              THEN "No " \o inv.model.verbose_name_plural \o " found to delete."
              ELSE "Found " \o ToString(Trace[c].n) \o " "
                   \o inv.model.verbose_name_plural \o " to delete."

\* C2: a dry run of the command never calls the host delete and never
\* prompts, whatever the model, record count, force flag and environment;
\* once it has passed the production-environment check and found the model
\* it ends reporting the record count it read.
C2_DryRunNeverDeletes ==
    (CommandRun /\ inv.opts.dry_run)
    => /\ inv.pc = "done"
       /\ Events(Trace, "delete") = {}
       /\ Events(Trace, "input") = {}
       /\ (/\ IsSafeEnvironment(settings, environ) \/ inv.opts.production_override
           /\ GetModel(inv.opts.app_label, inv.opts.model_name) # {})
          => ReportsCount

\* C2 witness: a forced dry run on a model with rows ended with its report.
C2_Witness ==
    /\ CommandRun
    /\ inv.opts.dry_run
    /\ inv.opts.force
    /\ inv.object_count > 0
    /\ inv.pc = "done"
    /\ ReportsCount
    /\ db[inv.model] = inv.object_count

\* The decision the four rules give, in their order
RuleDecision(cfg, model, n) ==
    IF ~cfg.enabled
    THEN [allowed |-> FALSE, error |-> DisabledError]
    ELSE IF model.app_label \in cfg.excluded_apps
    THEN [allowed |-> FALSE, error |-> AppExcludedError(model)]
    ELSE IF Label(model) \in cfg.excluded_models
    THEN [allowed |-> FALSE, error |-> ModelExcludedError(model)]
    ELSE IF n > cfg.max_objects_without_confirmation
    THEN [allowed |-> FALSE,
          error |-> TooManyError(n, cfg.max_objects_without_confirmation)]
    ELSE [allowed |-> TRUE, error |-> ""]

CheckCall == call.fn = "check_deletion_safety"

\* C3: check_deletion_safety decides by the first failing rule, in the
\* order disabled, app excluded, model excluded, count above the limit, and
\* allows when no rule fails.
C3_FirstFailingRuleDecides ==
    CheckCall
    => /\ call.allowed = RuleDecision(safety, call.model, call.n).allowed
       /\ call.error = RuleDecision(safety, call.model, call.n).error
       /\ (/\ safety.enabled
           /\ call.model.app_label \notin safety.excluded_apps
           /\ Label(call.model) \notin safety.excluded_models
           /\ call.n <= safety.max_objects_without_confirmation)
          => call.allowed

\* C3 witness: an enabled policy, a model excluded by app and by name, a
\* count above the limit: the app rule gave the reason.
C3_Witness ==
    /\ CheckCall
    /\ safety.enabled
    /\ call.model.app_label \in safety.excluded_apps
    /\ Label(call.model) \in safety.excluded_models
    /\ call.n > safety.max_objects_without_confirmation
    /\ call.error = AppExcludedError(call.model)

\* C4: a count above max_objects_without_confirmation is never allowed,
\* whatever the exclusions and the enabled flag.
C4_AboveLimitBlocked ==
    (CheckCall /\ call.n > safety.max_objects_without_confirmation)
    => ~call.allowed

\* C4 witness: the limit alone blocked a call: the default limit of 100 and
\* a count of 101.
C4_Witness ==
    /\ CheckCall
    /\ safety.max_objects_without_confirmation = DefaultMaxObjects
    /\ call.n = DefaultMaxObjects + 1
    /\ ~call.allowed
    /\ call.error = TooManyError(call.n, DefaultMaxObjects)

\* C5: a model whose app is excluded is blocked for every count, zero
\* included, and an enabled policy gives the app-excluded reason.
C5_ExcludedAppBlocked ==
    (CheckCall /\ call.model.app_label \in safety.excluded_apps)
    => /\ ~call.allowed
       /\ safety.enabled => call.error = AppExcludedError(call.model)

\* C5 witness: auth.User with no rows under the default exclusions.
C5_Witness ==
    /\ CheckCall
    /\ call.model = User
    /\ call.n = 0
    /\ safety.enabled
    /\ safety.excluded_apps = DefaultExcludedApps
    /\ call.error = AppExcludedError(User)

\* C6: requires_confirmation(n) is n > require_confirmation_above for every
\* n, whether check_deletion_safety allows n or not, and the threshold has
\* no part in the decision of check_deletion_safety.
C6_RequiresConfirmationIndependent ==
    /\ call.fn = "requires_confirmation"
       => call.requires = (call.n > safety.require_confirmation_above)
    /\ \A model \in Models, n \in CallCounts, t \in CallCounts :
          CheckDeletionSafety([safety EXCEPT !.require_confirmation_above = t],
                              model, n)
          = CheckDeletionSafety(safety, model, n)

\* C6 witness: confirmation is required for a count that the evaluation
\* allows for one model and blocks for the other.
C6_Witness ==
    /\ call.fn = "requires_confirmation"
    /\ call.requires
    /\ \E a, b \in Models :
        /\ CheckDeletionSafety(safety, a, call.n).allowed
        /\ ~CheckDeletionSafety(safety, b, call.n).allowed

\* DJANGO_ENV names production
EnvIsProduction(env) == Lower(env.DJANGO_ENV) \in {Production, Prod}

\* The datastore name looks like production
DatabaseLooksProduction(s) ==
    \E indicator \in {Prod, Production} : Contains(indicator, Lower(s.DB_NAME))

\* Every evaluation is blocked as disabled
AlwaysDisabled ==
    /\ ~safety.enabled
    /\ \A model \in Models, n \in CallCounts :
          CheckDeletionSafety(safety, model, n)
          = [allowed |-> FALSE, error |-> DisabledError]

\* C7 as stated: a production indicator at load time (DJANGO_ENV, or the
\* datastore name) without PRODUCTION_ENABLED disables the policy.
C7_AnyProductionIndicatorDisables ==
    (/\ EnvIsProduction(loadEnv) \/ DatabaseLooksProduction(settings)
     /\ ~Get(settings.DJANGO_DELETE_ALL.PRODUCTION_ENABLED, FALSE))
    => AlwaysDisabled

\* C7 amended: DJANGO_ENV naming production (in any letter case) at load
\* time without PRODUCTION_ENABLED disables the policy, whatever ENABLED
\* is configured, and every evaluation is then blocked as disabled; the
\* datastore name plays no part in the policy.
C7_ProductionEnvDisables ==
    (/\ EnvIsProduction(loadEnv)
     /\ ~Get(settings.DJANGO_DELETE_ALL.PRODUCTION_ENABLED, FALSE))
    => AlwaysDisabled

\* C7 witness: ENABLED configured True, loaded under DJANGO_ENV=PROD, the
\* environment changed since, and a call was blocked as disabled.
C7_Witness ==
    /\ settings.DJANGO_DELETE_ALL.ENABLED_ = {TRUE}
    /\ settings.DJANGO_DELETE_ALL.PRODUCTION_ENABLED = Absent
    /\ loadEnv.DJANGO_ENV = UpperProd
    /\ environ.DJANGO_ENV = Empty
    /\ environ.DJANGO_DELETE_ALL_DISABLED = Empty
    /\ CheckCall
    /\ call.error = DisabledError
    /\ AlwaysDisabled

\* C8: only the explicit reload changes the policy: a change of the
\* environment, an evaluation, a requires_confirmation call or an audit
\* call leaves every policy field, and so every evaluation result, as it
\* was.
C8_PolicyChangesOnlyOnReload ==
    [][Reload \/ (/\ safety' = safety
                  /\ \A model \in Models, n \in CallCounts :
                        CheckDeletionSafety(safety', model, n)
                        = CheckDeletionSafety(safety, model, n))]_vars

\* C8 witness: the policy still is what it was loaded as, enabled, though
\* the environment now names production and calls were made since.
C8_Witness ==
    /\ proc = "loader"
    /\ safety.enabled
    /\ ~safety.production_enabled
    /\ ~EnvIsProduction(loadEnv)
    /\ EnvIsProduction(environ)
    /\ CheckCall
    /\ call.allowed
    /\ Len(auditLog) > 0
    /\ safety = LoadSettings(settings, loadEnv)
    /\ safety # LoadSettings(settings, environ)

\* The check events of the invocation that were blocked
BlockedChecks == {k \in Events(Trace, "check") : Trace[k].text # "OK"}

\* The invocation ended by showing the caller the reason of blocked check k:
\* the command raises CommandError, the admin action queues an error
\* message; both hold the SafetyError's message.
SurfacesReason(k) ==
    /\ inv.pc = "done"
    /\ k + 1 = Len(Trace)
    /\ IF inv.fe = "command"
       THEN /\ Trace[k + 1].ev = "raise"
            /\ Trace[k + 1].label = "CommandError"
            /\ Trace[k + 1].text =
                  "Deletion blocked for safety: " \o Trace[k].text
                  \o "\n\nTo adjust safety limits, modify DJANGO_DELETE_ALL settings in your Django configuration."
       ELSE /\ Trace[k + 1].ev = "message"
            /\ Trace[k + 1].label = "error"
            /\ inv.response = "redirect"
            /\ Trace[k + 1].text =
                  "Deletion Blocked for Safety: " \o Trace[k].text
                  \o " Maximum objects without confirmation: "
                  \o ToString(safety.max_objects_without_confirmation)
                  \o " Objects found: " \o ToString(Trace[k].n)

\* The audit entry of an attempt
AttemptEntry(label, n, user) ==
    "Deletion attempt: " \o label \o " (" \o ToString(n) \o " objects) by " \o user

\* C9 as stated: a blocked evaluation ends the invocation without
\* deletion, the reason is shown, and with auditing enabled the attempt is
\* in the audit log.
C9_BlockedStillAudited ==
    \A k \in BlockedChecks :
        /\ Events(Trace, "delete") = {}
        /\ SurfacesReason(k)
        /\ safety.audit_deletions
           => \E l \in Events(Trace, "log") :
                 Trace[l].text =
                    AttemptEntry(Trace[k].label, Trace[k].n,
                                 IF inv.fe = "admin" THEN inv.opts.user ELSE "CLI")

\* C9 amended: a blocked evaluation ends the invocation at once, without
\* deletion, with the reason shown to the caller; no audit entry is written
\* for it, even with auditing enabled.
C9_BlockedEndsUnaudited ==
    \A k \in BlockedChecks :
        /\ Events(Trace, "delete") = {}
        /\ SurfacesReason(k)
        /\ Events(Trace, "log") = {}

\* C9 witness: with auditing enabled, an admin request for more rows than
\* the limit was blocked after an earlier request had been audited.
C9_Witness ==
    /\ AdminRun
    /\ safety.audit_deletions
    /\ Len(auditLog) > 0
    /\ \E k \in BlockedChecks :
          Trace[k].text
          = TooManyError(Trace[k].n, safety.max_objects_without_confirmation)

\* C10 as stated: a confirmation prompt or page comes only after an
\* evaluation of the same invocation returned allowed.
C10_ConfirmationOnlyAfterAllowed ==
    \A i \in Events(Trace, "input") \cup Events(Trace, "render") :
        \E k \in Events(Trace, "check") : k < i /\ Trace[k].text = "OK"

\* C10 amended: the admin action renders the confirmation page only after
\* the evaluation of that request returned allowed for the count it read;
\* the command evaluates only after its prompt: it has not evaluated when it
\* prompts, and it evaluates only under --force or after the prompt.
C10_AdminChecksFirstCommandLast ==
    /\ \A i \in Events(Trace, "render") :
          /\ BlockedChecks = {}
          /\ \E k \in Events(Trace, "check") :
                /\ k < i
                /\ Trace[k].text = "OK"
                /\ Trace[k].n = Trace[i].n
    /\ \A i \in Events(Trace, "input"), k \in Events(Trace, "check") : i < k
    /\ CommandRun
       => \A k \in Events(Trace, "check") :
             inv.opts.force \/ \E i \in Events(Trace, "input") : i < k

\* C10 witness: a command run prompted, was answered, and only then was
\* blocked by the evaluation.
C10_Witness ==
    /\ CommandRun
    /\ \E i \in Events(Trace, "input"), k \in BlockedChecks : i < k

----------------------------------------------------------------------------
\* A command run whose prompt has been answered
Answered ==
    /\ CommandRun
    /\ inv.pc = "done"
    /\ Events(Trace, "input") # {}

\* The answer is not "yes" in any letter case
Declined == Lower(inv.confirm) # Yes

\* The run ended with the cancellation notice
Cancelled ==
    /\ inv.pc = "done"
    /\ Trace[Len(Trace)] = Ev("write", "", 0, "Operation cancelled.")

----------------------------------------------------------------------------
\* The audit line log_deletion_success writes
SuccessEntry(label, n, user) ==
    "Deletion completed: " \o label \o " (" \o ToString(n)
    \o " objects deleted) by " \o user

\* Who the audit lines of the invocation name: the request's user, or "CLI"
Actor == IF inv.fe = "admin" THEN inv.opts.user ELSE "CLI"

\* The invocation ended by telling its caller that the deletion failed
SurfacesFailure ==
    LET last == Trace[Len(Trace)]
    IN  IF inv.fe = "command"
        THEN /\ last.ev = "raise"
             /\ last.label = "CommandError"
             /\ last.text = "Error during deletion: " \o HostError
        ELSE /\ last.ev = "message"
             /\ last.label = "ERROR"
             /\ last.text = "Error during deletion: " \o HostError

\* The audit lines of the invocation, in the order they were written
AuditLines == Events(Trace, "log")

\* What the audit log must hold around the host delete at place i of the
\* trace: after a return, the success line for the deleted count follows
\* (auditing enabled); after a raise, the attempt line is the only audit
\* line of the invocation and the failure is shown to the caller.
AuditedAsItEnded(i) ==
    IF Trace[i].text = "returned"
    THEN safety.audit_deletions =>
            \E j \in AuditLines :
                /\ j > i
                /\ Trace[j].text = SuccessEntry(Trace[i].label, Trace[i].n, Actor)
    ELSE /\ safety.audit_deletions =>
               \E j \in AuditLines :
                   /\ j < i
                   /\ Trace[j].text =
                         AttemptEntry(Trace[i].label, inv.object_count, Actor)
         /\ \A j \in AuditLines :
               Trace[j].text = AttemptEntry(Trace[i].label, inv.object_count, Actor)
         /\ SurfacesFailure

\* A success line is written only after a host delete that returned
SuccessOnlyAfterReturn ==
    \A j \in AuditLines :
        (\E n \in 0..(MaxCount + 1) :
            Trace[j].text = SuccessEntry(Label(inv.model), n, Actor))
        => \E i \in Events(Trace, "delete") :
              /\ i < j
              /\ Trace[i].text = "returned"
              /\ Trace[j].text = SuccessEntry(Trace[i].label, Trace[i].n, Actor)

\* C12 as stated: in the command and in the admin action alike, the success
\* line is in the audit log exactly when the host delete returned, and a
\* host delete that raised leaves the attempt line alone in the log and
\* ends the invocation with the deletion failure.
C12_SuccessAuditedIffReturned ==
    (CommandRun \/ AdminRun) /\ inv.pc = "done" =>
        /\ \A i \in Events(Trace, "delete") : AuditedAsItEnded(i)
        /\ SuccessOnlyAfterReturn

\* C12 in the admin action alone, where it holds
C12_AdminSuccessAuditedIffReturned ==
    AdminRun =>
        /\ \A i \in Events(Trace, "delete") : AuditedAsItEnded(i)
        /\ SuccessOnlyAfterReturn

\* C12 in the admin action: a host delete that returned and one that raised
C12_AdminWitness ==
    /\ AdminRun
    /\ safety.audit_deletions
    /\ \E i \in Events(Trace, "delete") : Trace[i].text = "raised"
    /\ Len(auditLog) = 1

----------------------------------------------------------------------------
\* A step that is one call of log_deletion_attempt or log_deletion_success
AuditCall ==
    /\ call'.fn \in {"log_deletion_attempt", "log_deletion_success"}
    /\ UNCHANGED <<environ, safety, loadEnv>>

\* The line the call of the step writes when auditing is enabled
AuditLine(user) ==
    IF call'.fn = "log_deletion_attempt"
    THEN AttemptEntry(Label(call'.model), call'.n, user)
    ELSE SuccessEntry(Label(call'.model), call'.n, user)

\* C13: with audit_deletions false no step changes the audit log, whatever
\* calls of log_deletion_attempt and log_deletion_success are made; with
\* audit_deletions true each such call appends exactly one entry, the line
\* of that call, and no step removes or alters an earlier entry.
C13_AuditAppendsOrNothing ==
    [][ /\ ~safety.audit_deletions => auditLog' = auditLog
        /\ Len(auditLog') >= Len(auditLog)
        /\ SubSeq(auditLog', 1, Len(auditLog)) = auditLog
        /\ AuditCall /\ safety.audit_deletions =>
              /\ Len(auditLog') = Len(auditLog) + 1
              /\ \E user \in Users :
                    auditLog'[Len(auditLog')] = AuditLine(user)
      ]_vars

\* C13 witness: log_deletion_success was just called with auditing disabled
C13_Witness ==
    /\ proc = "loader"
    /\ ~safety.audit_deletions
    /\ call.fn = "log_deletion_success"
    /\ auditLog = <<>>

\* C13, auditing enabled: the log is full and keeps its entries in the
\* order of the calls
C13_WitnessEnabled ==
    /\ proc = "loader"
    /\ safety.audit_deletions
    /\ Len(auditLog) = MaxAudit
    /\ auditLog[1] = AttemptEntry(Label(Order), MaxCount, "alice")
    /\ auditLog[2] = SuccessEntry(Label(Order), MaxCount, "alice")

----------------------------------------------------------------------------
\* The command was given an app that is not installed, or a model name that
\* the app does not have
TargetUnknown ==
    /\ CommandRun
    /\ \/ \A m \in Models : m.app_label # inv.opts.app_label
       \/ /\ inv.opts.model_name # ""
          /\ \A m \in Models : \/ m.app_label # inv.opts.app_label
                                \/ m.name # inv.opts.model_name

\* The message of the CommandError for the target that was not found
NotFoundError ==
    IF \A m \in Models : m.app_label # inv.opts.app_label
    THEN "App \"" \o inv.opts.app_label \o "\" not found."
    ELSE "Model \"" \o inv.opts.model_name \o "\" not found in app \""
         \o inv.opts.app_label
         \o "\". Run command without model name to see available models."

\* The message of the CommandError of the environment check
ProductionError ==
    "This command is disabled in production environments. Use --production-override if you really need to run this in production."

\* C14: a command run for an app that is not installed, or for a model name
\* its app does not have, ends at once with a CommandError and nothing
\* else: no record count, no policy check, no prompt, no host delete. The
\* error names the missing app or model, unless the environment check
\* that comes first has already refused the run.
C14_UnknownTargetFailsFirst ==
    TargetUnknown =>
        /\ inv.pc = "done"
        /\ Len(Trace) = 1
        /\ Trace[1].ev = "raise"
        /\ Trace[1].label = "CommandError"
        /\ Trace[1].text =
              IF ~IsSafeEnvironment(settings, environ)
                 /\ ~inv.opts.production_override
              THEN ProductionError
              ELSE NotFoundError
        /\ Events(Trace, "count") = {}
        /\ Events(Trace, "check") = {}
        /\ Events(Trace, "input") = {}
        /\ Events(Trace, "delete") = {}

\* C14 witness: the model name exists, with rows, but in another app
C14_Witness ==
    /\ TargetUnknown
    /\ inv.opts.app_label = "shop"
    /\ inv.opts.model_name = "User"
    /\ inv.opts.force
    /\ db[User] > 0
    /\ Trace[1].text = NotFoundError

----------------------------------------------------------------------------
\* A step of the web process that adds no row: one request of the admin
\* action
AdminStep ==
    /\ proc = "web"
    /\ \A m \in Models : db'[m] <= db[m]

\* The request of the step carries the confirmation
Confirms == inv'.opts.post = "yes"

\* C15: every request of the admin action is served from the state it
\* finds. A request without delete permission is refused and changes
\* nothing. A permitted request reads the record count afresh and evaluates
\* the policy for that count. A request without post = "yes" never calls
\* the host delete and leaves the rows alone; when permitted and allowed it
\* answers with the confirmation page for the fresh count. The host delete
\* is called exactly by the confirming requests that are permitted, allowed
\* and find at least one row.
C15_RequestsIndependent ==
    [][ AdminStep =>
          LET model == inv'.model
              fresh == db[model]
              check == CheckDeletionSafety(safety, model, fresh)
              trace == inv'.trace
          IN  /\ inv'.fe = "admin"
              /\ ~inv'.opts.perm =>
                    /\ inv'.response = "PermissionDenied"
                    /\ trace = <<Ev("raise", "PermissionDenied", 0, "")>>
                    /\ db' = db
                    /\ auditLog' = auditLog
              /\ inv'.opts.perm =>
                    /\ inv'.object_count = fresh
                    /\ trace[1] = Ev("count", Label(model), fresh, "")
                    /\ trace[2] = Ev("check", Label(model), fresh,
                                     IF check.allowed THEN "OK" ELSE check.error)
              /\ ~Confirms =>
                    /\ Events(trace, "delete") = {}
                    /\ db' = db
                    /\ inv'.opts.perm /\ check.allowed =>
                          /\ inv'.response = "page"
                          /\ trace[Len(trace)].ev = "render"
                          /\ inv'.context.object_count = fresh
              /\ Events(trace, "delete") # {}
                    <=> /\ Confirms
                        /\ inv'.opts.perm
                        /\ check.allowed
                        /\ fresh > 0
              /\ Confirms /\ inv'.opts.perm /\ check.allowed /\ fresh = 0 =>
                    /\ db' = db
                    /\ trace[Len(trace)] =
                          Ev("message", "info", 0,
                             "No " \o model.verbose_name_plural \o " to delete.")
      ]_vars

\* C15 witness: an earlier request found the table empty; the confirming
\* request found the row added since, was allowed for it and deleted it
C15_Witness ==
    /\ AdminRun
    /\ inv.opts.post = "yes"
    /\ Len(auditLog) = 3
    /\ auditLog[1] = AttemptEntry(Label(inv.model), 0, inv.opts.user)
    /\ auditLog[2] = AttemptEntry(Label(inv.model), 1, inv.opts.user)
    /\ \E i \in Events(Trace, "delete") :
          Trace[i].text = "returned" /\ Trace[i].n = 1
    /\ db[inv.model] = 0

----------------------------------------------------------------------------
\* A command run in a process whose DJANGO_ENV says production, with
\* PRODUCTION_ENABLED unset or false in the settings
ProductionRun ==
    /\ CommandRun
    /\ EnvIsProduction(environ)
    /\ settings.DJANGO_DELETE_ALL.PRODUCTION_ENABLED \in {Absent, {FALSE}}

\* The run got past every question the command asks before the deletion
Consented ==
    /\ inv.pc = "done"
    /\ Events(Trace, "count") # {}
    /\ inv.object_count > 0
    /\ ~inv.opts.dry_run
    /\ inv.opts.force \/ (Events(Trace, "input") # {} /\ ~Declined)

====
